---- MODULE Spec2Model ----
(***************************************************************************)
(* The response-compression middleware of grout                            *)
(* (internal/middleware/compression.go): content-type allowlist,           *)
(* Accept-Encoding negotiation, the wrapping response writer and the two   *)
(* pools of gzip / brotli encoders.                                        *)
(*                                                                         *)
(* Header values are TLA+ strings and the two strings.Contains tests of    *)
(* the code are computed on them character by character.  A response body  *)
(* is a sequence of frames: a raw byte, or a frame of a codec (gzip:       *)
(* header, data, trailer; brotli: data, final block), so that decoding is  *)
(* a computation that can fail.                                            *)
(***************************************************************************)
EXTENDS Integers, Sequences, FiniteSets, TLC

\* ------------------------------------------------------------------ bounds
NumReq == 2      \* responses served (slots 1..NumReq)
MaxEnc == 2      \* encoders each pool's New may allocate
MaxBody == 3     \* bytes one handler writes in all

Reqs == 1..NumReq
GzIds == 1..MaxEnc
BrIds == (MaxEnc + 1)..(2 * MaxEnc)
EncIds == GzIds \cup BrIds
NoEnc == 0       \* a nil writer / a nil io.Writer target

\* ------------------------------------------------------------------ inputs
\* Accept-Encoding as the client composes it: a list of codings, each with
\* an optional q-value ("" = none given).
Coding(c, q) == [coding |-> c, q |-> q]

AcceptEncodings ==
    { <<>>,
      <<Coding("gzip", "")>>,
      <<Coding("br", "")>>,
      <<Coding("gzip", ""), Coding("br", "")>>,
      <<Coding("br", ""), Coding("gzip", "")>>,
      <<Coding("gzip", ""), Coding("br", "0")>>,
      <<Coding("identity", ""), Coding("gzip", "0")>>,
      <<Coding("identity", "")>>,
      <<Coding("pack200-gzip", "")>> }

ConcAcceptEncodings == { <<Coding("gzip", "")>>, <<Coding("br", "")>> }

\* Content-Type values a handler sets ("" is the absent header).
ContentTypes ==
    { "image/png",
      "image/svg+xml",
      "text/html; charset=utf-8",
      "application/xml-dtd",
      "image/png; name=text/html" }

ConcContentTypes == { "image/svg+xml", "image/png" }

Statuses == {200, 204}
ConcStatuses == {200}

Chunks == { <<"x">>, <<"y", "x">> }
ConcChunks == { <<"y", "x">> }

\* ------------------------------------------------------------ pure helpers
\* strings.Contains(s, sub)
Contains(s, sub) ==
    \E i \in 0..(Len(s) - Len(sub)) : SubSeq(s, i + 1, i + Len(sub)) = sub

\* The header line of one coding: "br", "br;q=0".
RenderCoding(c) == IF c.q = "" THEN c.coding ELSE c.coding \o ";q=" \o c.q

\* The Accept-Encoding header value on the wire; "" when the header is absent.
RECURSIVE RenderAcceptEncoding(_)
RenderAcceptEncoding(items) ==
    IF items = <<>> THEN ""
    ELSE IF Len(items) = 1 THEN RenderCoding(items[1])
    ELSE RenderCoding(items[1]) \o ", " \o RenderAcceptEncoding(Tail(items))

compressible ==
    << "image/svg+xml", "text/html", "text/plain", "text/css", "text/javascript",
       "application/javascript", "application/json", "application/xml" >>

\* Mutant: a response without a Content-Type counts as compressible.
shouldCompressUntyped(contentType) ==
    \/ contentType = ""
    \/ \E i \in 1..Len(compressible) : Contains(contentType, compressible[i])

shouldCompress(contentType) ==
    \E i \in 1..Len(compressible) : Contains(contentType, compressible[i])

supportsBrotli(acceptEncoding) == Contains(acceptEncoding, "br")
supportsGzip(acceptEncoding) == Contains(acceptEncoding, "gzip")

\* The encoding CompressionMiddleware negotiates; "" = call next directly.
NegotiatedEncoding(acceptEncoding) ==
    IF supportsBrotli(acceptEncoding) THEN "br"
    ELSE IF supportsGzip(acceptEncoding) THEN "gzip"
    ELSE ""

\* ------------------------------------------------------------------ frames
Frame(codec, kind, b) == [c |-> codec, k |-> kind, v |-> b]
Raw(b) == Frame("raw", "data", b)

RawFrames(p) == [i \in 1..Len(p) |-> Raw(p[i])]
DataFrames(codec, p) == [i \in 1..Len(p) |-> Frame(codec, "data", p[i])]

\* ---------------------------------------------------------------- state
VARIABLES
    pc,               \* per response: "new", "handler", "done", "closed"
    accept,           \* per response: the request's Accept-Encoding (list of codings)
    cw,               \* per response: the compressionResponseWriter (wrapped = FALSE: none made)
    under,            \* per response: the underlying http.ResponseWriter
    broken,           \* per response: the transport rejects writes
    written,          \* per response: the bytes the handler passed to Write, in call order
    writeErr,         \* per response: some Write returned an error to the handler
    closeErr,         \* per response: the deferred Close returned an error
    outcome,          \* per response: how the middleware call ended
    checkouts,        \* per response: encoders taken from a pool
    asked,            \* per response: the status of the handler's first WriteHeader (200 for a first Write)
    again,            \* per response: the status of the handler's latest WriteHeader after the first (0: none)
    forwards,         \* per response: WriteHeader calls its compressionResponseWriter passed on
    enc,              \* the gzip.Writer / brotli.Writer objects
    gzipWriterPool,   \* encoder id -> number of times it sits in the pool
    brotliWriterPool

\* The RenderCache and the tasks calling it.
VARIABLES
    callers,          \* per caller: its getOrRender call (pc, key, the render it is attached to, result)
    cache,            \* the mapping CacheKey -> CacheEntry and its recency order
    flights,          \* per key: the render in flight for it (0: none)
    renders,          \* the invocations of produce so far, in order: "running", "ok", "failed"
    access            \* the time of the last access (insertion or hit) of every key

mwVars == << pc, accept, cw, under, broken, written, writeErr, closeErr, outcome,
             checkouts, asked, again, forwards, enc, gzipWriterPool, brotliWriterPool >>
cacheVars == << callers, cache, flights, renders, access >>
vars == << mwVars, cacheVars >>

\* ------------------------------------------------- underlying ResponseWriter
NoHeader == [ct |-> "", cl |-> "", ce |-> ""]
NewResponseWriter == [header |-> NoHeader, status |-> 0, sent |-> NoHeader, body |-> <<>>]

\* ResponseWriter.WriteHeader: the first call fixes the status and the headers sent.
UnderWriteHeader(u, statusCode) ==
    IF u.status # 0 THEN u ELSE [u EXCEPT !.status = statusCode, !.sent = u.header]

\* ResponseWriter.Write on a working transport: an implicit WriteHeader(200), then the bytes.
UnderWrite(u, frames) ==
    [UnderWriteHeader(u, 200) EXCEPT !.body = @ \o frames]

\* A Write to the io.Writer `dst` (a response, or nil): ok = FALSE is a returned error.
DstWrite(us, brk, dst, frames) ==
    IF dst = NoEnc \/ brk[dst]
    THEN [ok |-> FALSE, under |-> us]
    ELSE [ok |-> TRUE, under |-> [us EXCEPT ![dst] = UnderWrite(@, frames)]]

\* ---------------------------------------------------------------- encoders
Unallocated == [kind |-> "none", dst |-> NoEnc, wroteHeader |-> FALSE,
                closed |-> FALSE, err |-> FALSE, buf |-> <<>>]

\* gzip.NewWriterLevel(nil, ...) / brotli.NewWriterLevel(nil, ...)
NewEncoder(kind) == [Unallocated EXCEPT !.kind = kind]

\* Mutant: Reset clears the encoder's state and keeps the target it had.
ResetEncoderKeepsTarget(z, dst) == [NewEncoder(z.kind) EXCEPT !.dst = z.dst]

\* (*gzip.Writer).Reset(w) / (*brotli.Writer).Reset(w)
ResetEncoder(z, dst) == [NewEncoder(z.kind) EXCEPT !.dst = dst]

\* (*gzip.Writer).Write: header on the first call, then the deflate stream,
\* which reaches the target when the compressor decides to (flush).
GzipWrite(es, us, brk, e, p, flush) ==
    LET z == es[e] IN
    IF z.err \/ z.closed THEN [enc |-> es, under |-> us, err |-> TRUE]
    ELSE
      LET h == IF z.wroteHeader THEN [ok |-> TRUE, under |-> us]
               ELSE DstWrite(us, brk, z.dst, << Frame("gzip", "hdr", "") >>)
      IN
      IF ~h.ok
      THEN [enc |-> [es EXCEPT ![e].wroteHeader = TRUE, ![e].err = TRUE],
            under |-> us, err |-> TRUE]
      ELSE
        LET buf == z.buf \o p
            d == IF flush /\ buf # <<>>
                 THEN DstWrite(h.under, brk, z.dst, DataFrames("gzip", buf))
                 ELSE [ok |-> TRUE, under |-> h.under]
        IN [enc |-> [es EXCEPT ![e] = [z EXCEPT !.wroteHeader = TRUE,
                                               !.buf = IF flush THEN <<>> ELSE buf,
                                               !.err = ~d.ok]],
            under |-> d.under, err |-> ~d.ok]

\* (*gzip.Writer).Close: header if none yet, the rest of the stream, the trailer.
\* The target stays referenced.
GzipClose(es, us, brk, e) ==
    LET z == es[e] IN
    IF z.err THEN [enc |-> es, under |-> us, err |-> TRUE]
    ELSE IF z.closed THEN [enc |-> es, under |-> us, err |-> FALSE]
    ELSE
      LET out == (IF z.wroteHeader THEN <<>> ELSE << Frame("gzip", "hdr", "") >>)
                 \o DataFrames("gzip", z.buf)
                 \o << Frame("gzip", "end", "") >>
          d == DstWrite(us, brk, z.dst, out)
      IN [enc |-> [es EXCEPT ![e] = [z EXCEPT !.wroteHeader = TRUE, !.closed = TRUE,
                                             !.buf = IF d.ok THEN <<>> ELSE z.buf,
                                             !.err = ~d.ok]],
          under |-> d.under, err |-> ~d.ok]

\* (*brotli.Writer).Write: no stream header; a nil target is "writer closed".
BrotliWrite(es, us, brk, e, p, flush) ==
    LET z == es[e] IN
    IF z.dst = NoEnc \/ z.err THEN [enc |-> es, under |-> us, err |-> TRUE]
    ELSE
      LET buf == z.buf \o p
          d == IF flush /\ buf # <<>>
               THEN DstWrite(us, brk, z.dst, DataFrames("br", buf))
               ELSE [ok |-> TRUE, under |-> us]
      IN [enc |-> [es EXCEPT ![e] = [z EXCEPT !.buf = IF flush THEN <<>> ELSE buf,
                                             !.err = ~d.ok]],
          under |-> d.under, err |-> ~d.ok]

\* (*brotli.Writer).Close: the rest of the stream and the final block, then
\* the target is dropped (dst = nil).
BrotliClose(es, us, brk, e) ==
    LET z == es[e] IN
    IF z.dst = NoEnc THEN [enc |-> es, under |-> us, err |-> TRUE]
    ELSE IF z.err THEN [enc |-> [es EXCEPT ![e].dst = NoEnc], under |-> us, err |-> TRUE]
    ELSE
      LET out == DataFrames("br", z.buf) \o << Frame("br", "end", "") >>
          d == DstWrite(us, brk, z.dst, out)
      IN [enc |-> [es EXCEPT ![e] = [z EXCEPT !.dst = NoEnc, !.closed = TRUE,
                                             !.buf = IF d.ok THEN <<>> ELSE z.buf,
                                             !.err = ~d.ok]],
          under |-> d.under, err |-> ~d.ok]

\* ------------------------------------------------------------------- pools
IdsOf(kind) == IF kind = "br" THEN BrIds ELSE GzIds

EmptyPool == [e \in EncIds |-> 0]

\* Mutant: Get hands out an encoder and leaves it in the pool.
PoolGetKeep(pool, e) == pool

\* sync.Pool.Get removes the item it returns; sync.Pool.Put adds one.
PoolGet(pool, e) == IF pool[e] > 0 THEN [pool EXCEPT ![e] = @ - 1] ELSE pool
PoolPut(pool, e) == [pool EXCEPT ![e] = @ + 1]

SetMin(S) == CHOOSE x \in S : \A y \in S : x <= y

\* What Get may return: a pooled encoder, or the next one New allocates.
GetCandidates(kind, es, pool) ==
    LET free == {e \in IdsOf(kind) : es[e].kind = "none"} IN
    {e \in IdsOf(kind) : pool[e] > 0} \cup (IF free = {} THEN {} ELSE {SetMin(free)})

\* ------------------------------------------------ compressionResponseWriter
NoWriter == [wrapped |-> FALSE, writer |-> NoEnc, encoding |-> "",
             headerWritten |-> FALSE, compressionUsed |-> FALSE]

\* &compressionResponseWriter{ResponseWriter: w, encoding: encoding}
NewCompressionResponseWriter(encoding) ==
    [NoWriter EXCEPT !.wrapped = TRUE, !.encoding = encoding]

\* The part of the state the writer's methods read and change.
Bundle == [cw |-> cw, under |-> under, enc |-> enc, gz |-> gzipWriterPool,
           br |-> brotliWriterPool, checkouts |-> checkouts, forwards |-> forwards]

\* Mutant: WriteHeader without its headerWritten guard.
HeaderNeverWritten(c) == FALSE

\* Mutant: only a compressed response remembers that its header was written.
HeaderWrittenIfCompressed(c) == c.headerWritten /\ c.compressionUsed

\* if w.headerWritten { return }
HeaderAlreadyWritten(c) == c.headerWritten

\* Mutant: the Content-Length header is left in place.
CompressedHeaderKeepLength(h, encoding) == [h EXCEPT !.ce = encoding]

\* Header().Set("Content-Encoding", w.encoding); Header().Del("Content-Length")
CompressedHeader(h, encoding) == [h EXCEPT !.ce = encoding, !.cl = ""]

\* Mutant: the wrapper answers 200 whatever the handler asked for.
ForwardedStatusOK(statusCode) == 200

\* w.ResponseWriter.WriteHeader(statusCode): the status handed on.
ForwardedStatus(statusCode) == statusCode

\* Mutant: the encoder is taken from the pool and not stored in w.writer.
CheckOutNoWriter(S, r, e) ==
    LET k == S.cw[r].encoding
    IN [S EXCEPT !.gz = IF k = "gzip" THEN PoolGet(@, e) ELSE @,
                 !.br = IF k = "br" THEN PoolGet(@, e) ELSE @,
                 !.checkouts[r] = @ + 1]

\* pool.Get().(*T) followed by Reset(w.ResponseWriter): e is what Get returned.
CheckOut(S, r, e) ==
    LET k == S.cw[r].encoding
        z == IF S.enc[e].kind = "none" THEN NewEncoder(k) ELSE S.enc[e]
    IN [S EXCEPT !.enc[e] = ResetEncoder(z, r),
                 !.gz = IF k = "gzip" THEN PoolGet(@, e) ELSE @,
                 !.br = IF k = "br" THEN PoolGet(@, e) ELSE @,
                 !.cw[r].writer = e,
                 !.checkouts[r] = @ + 1]

\* (*compressionResponseWriter).WriteHeader; e is the encoder Get returns if called.
cwWriteHeader(S, r, statusCode, e) ==
    IF HeaderAlreadyWritten(S.cw[r]) THEN S
    ELSE
      LET S1 == [S EXCEPT !.cw[r].headerWritten = TRUE]
          S2 == IF shouldCompress(S1.under[r].header.ct)
                THEN LET S3 == [S1 EXCEPT !.cw[r].compressionUsed = TRUE,
                                          !.under[r].header =
                                              CompressedHeader(@, S1.cw[r].encoding)]
                     IN IF S3.cw[r].encoding \in {"br", "gzip"}
                        THEN CheckOut(S3, r, e) ELSE S3
                ELSE S1
      IN [S2 EXCEPT !.under[r] = UnderWriteHeader(@, ForwardedStatus(statusCode)),
                    !.forwards[r] = @ + 1]

\* w.writer.Write(b) on the wrapped gzip.Writer / brotli.Writer
EncoderWrite(es, us, brk, e, b, flush) ==
    IF es[e].kind = "br" THEN BrotliWrite(es, us, brk, e, b, flush)
    ELSE GzipWrite(es, us, brk, e, b, flush)

\* (*compressionResponseWriter).Write: [S |-> the state after, err |-> an error returned]
cwWrite(S, brk, r, b, e, flush) ==
    LET S1 == IF ~S.cw[r].headerWritten THEN cwWriteHeader(S, r, 200, e) ELSE S
        c == S1.cw[r]
    IN IF c.compressionUsed /\ c.writer # NoEnc
       THEN LET w == EncoderWrite(S1.enc, S1.under, brk, c.writer, b, flush)
            IN [S |-> [S1 EXCEPT !.enc = w.enc, !.under = w.under], err |-> w.err]
       ELSE LET d == DstWrite(S1.under, brk, r, RawFrames(b))
            IN [S |-> [S1 EXCEPT !.under = d.under], err |-> ~d.ok]

\* Mutant: the wrapper closes the encoder and keeps it out of the pool.
WrapperCloseNoPut(S, brk, e) ==
    LET w == IF S.enc[e].kind = "br" THEN BrotliClose(S.enc, S.under, brk, e)
             ELSE GzipClose(S.enc, S.under, brk, e)
    IN [S |-> [S EXCEPT !.enc = w.enc, !.under = w.under], err |-> w.err]

\* gzipWriterWrapper.Close / brotliWriterWrapper.Close: close, then Put.
WrapperClose(S, brk, e) ==
    LET isBr == S.enc[e].kind = "br"
        w == IF isBr THEN BrotliClose(S.enc, S.under, brk, e)
             ELSE GzipClose(S.enc, S.under, brk, e)
    IN [S |-> [S EXCEPT !.enc = w.enc, !.under = w.under,
                        !.gz = IF isBr THEN @ ELSE PoolPut(@, e),
                        !.br = IF isBr THEN PoolPut(@, e) ELSE @],
        err |-> w.err]

\* Mutant: Close does not close the encoder.
cwCloseNothing(S, brk, r) == [S |-> S, err |-> FALSE]

\* (*compressionResponseWriter).Close
cwClose(S, brk, r) ==
    IF S.cw[r].writer # NoEnc THEN WrapperClose(S, brk, S.cw[r].writer)
    ELSE [S |-> S, err |-> FALSE]

\* The encoders Get may hand to response r if its next WriteHeader compresses.
EncoderChoices(r) ==
    IF cw[r].wrapped /\ ~HeaderAlreadyWritten(cw[r]) /\ shouldCompress(under[r].header.ct)
    THEN GetCandidates(cw[r].encoding, enc,
                       IF cw[r].encoding = "br" THEN brotliWriterPool ELSE gzipWriterPool)
    ELSE {NoEnc}

Install(S) ==
    /\ cw' = S.cw
    /\ under' = S.under
    /\ enc' = S.enc
    /\ gzipWriterPool' = S.gz
    /\ brotliWriterPool' = S.br
    /\ checkouts' = S.checkouts
    /\ forwards' = S.forwards

\* -------------------------------------------------------------- RenderCache
NumCallers == 2
Capacity == 2
MaxRenders == 3
MaxHits == 1

Callers == 1..NumCallers
Keys == {"A", "B", "C"}

\* A getOrRender result: a CacheEntry (named by the render that produced it) or the failure.
NoResult == [st |-> "none", entry |-> 0]
Entry(n) == [st |-> "entry", entry |-> n]
Failure == [st |-> "failure", entry |-> 0]

Idle == [pc |-> "idle", key |-> "", flight |-> 0, res |-> NoResult]

EmptyCache == [entries |-> [k \in Keys |-> 0], lru |-> <<>>]

\* Mutant: a hit leaves the order as it is; only a new key enters at the front.
TouchInsertOnly(c, k) ==
    IF \E i \in 1..Len(c.lru) : c.lru[i] = k THEN c
    ELSE [c EXCEPT !.lru = <<k>> \o @]

\* Recency update: k becomes the most recently used key.
Touch(c, k) == [c EXCEPT !.lru = <<k>> \o SelectSeq(@, LAMBDA x : x # k)]

\* Eviction: over capacity, the least recently used entry goes.
Evict(c) ==
    IF Len(c.lru) <= Capacity THEN c
    ELSE LET victim == c.lru[Len(c.lru)]
         IN [entries |-> [c.entries EXCEPT ![victim] = 0],
             lru |-> SubSeq(c.lru, 1, Len(c.lru) - 1)]

\* Insertion of the entry of render n under key k.
Insert(c, k, n) == Evict(Touch([c EXCEPT !.entries[k] = n], k))

\* Mutant: whatever produce returned is stored.
StoreAlways(c, k, n, ok) == Insert(c, k, n)

\* What the cache keeps of a finished produce: its entry, or nothing on failure.
Store(c, k, n, ok) == IF ok THEN Insert(c, k, n) ELSE c

\* Mutant: a caller never sees a render in flight.
NoFlight(fl, k) == 0

\* The render in flight for key k (0: none) that a caller attaches to.
InFlight(fl, k) == fl[k]

\* The ledger of accesses: a hit or an insertion of k at the next instant.
Stamp(a, k) == [now |-> a.now + 1, stamp |-> [a.stamp EXCEPT ![k] = a.now + 1]]

InitCache ==
    /\ callers = [c \in Callers |-> Idle]
    /\ cache = EmptyCache
    /\ flights = [k \in Keys |-> 0]
    /\ renders = <<>>
    /\ access = [now |-> 0, stamp |-> [k \in Keys |-> 0]]

\* ----------------------------------------------------------------- actions
Init ==
    /\ pc = [r \in Reqs |-> "new"]
    /\ accept = [r \in Reqs |-> <<>>]
    /\ cw = [r \in Reqs |-> NoWriter]
    /\ under = [r \in Reqs |-> NewResponseWriter]
    /\ broken = [r \in Reqs |-> FALSE]
    /\ written = [r \in Reqs |-> <<>>]
    /\ writeErr = [r \in Reqs |-> FALSE]
    /\ closeErr = [r \in Reqs |-> FALSE]
    /\ outcome = [r \in Reqs |-> ""]
    /\ checkouts = [r \in Reqs |-> 0]
    /\ again = [r \in Reqs |-> 0]
    /\ forwards = [r \in Reqs |-> 0]
    /\ asked = [r \in Reqs |-> 0]
    /\ enc = [e \in EncIds |-> Unallocated]
    /\ gzipWriterPool = EmptyPool
    /\ brotliWriterPool = EmptyPool
    /\ InitCache

\* A response whose middleware call returned is released by the server when
\* the next request is taken up: only its (now idle) writer remains.
Released(f, init) == [q \in Reqs |-> IF pc[q] = "done" THEN init ELSE f[q]]

\* CompressionMiddleware, up to the call of next.ServeHTTP: the request's
\* Accept-Encoding decides between the handler on w and the handler on cw.
\* serial: the server takes up a request only when no other is in flight.
Start(r, encodings, serial) ==
    /\ pc[r] = "new"
    /\ \A q \in Reqs : q < r => pc[q] # "new"
    /\ serial => \A q \in Reqs : pc[q] # "handler"
    /\ \E ae \in encodings :
         LET acceptEncoding == RenderAcceptEncoding(ae)
             encoding == NegotiatedEncoding(acceptEncoding)
         IN /\ accept' = [Released(accept, <<>>) EXCEPT ![r] = ae]
            /\ cw' = [Released(cw, NoWriter) EXCEPT ![r] =
                        IF encoding = "" THEN NoWriter
                        ELSE NewCompressionResponseWriter(encoding)]
    /\ pc' = [Released(pc, "closed") EXCEPT ![r] = "handler"]
    /\ under' = Released(under, NewResponseWriter)
    /\ broken' = Released(broken, FALSE)
    /\ written' = Released(written, <<>>)
    /\ writeErr' = Released(writeErr, FALSE)
    /\ closeErr' = Released(closeErr, FALSE)
    /\ outcome' = Released(outcome, "")
    /\ checkouts' = Released(checkouts, 0)
    /\ again' = Released(again, 0)
    /\ forwards' = Released(forwards, 0)
    /\ asked' = Released(asked, 0)
    /\ UNCHANGED << enc, gzipWriterPool, brotliWriterPool >>
    /\ UNCHANGED cacheVars

\* The handler: w.Header().Set("Content-Type", ct)
SetContentType(r, types) ==
    /\ pc[r] = "handler"
    /\ \E ct \in types : under' = [under EXCEPT ![r].header.ct = ct]
    /\ UNCHANGED << pc, accept, cw, broken, written, writeErr, closeErr, outcome,
                    checkouts, asked, again, forwards, enc, gzipWriterPool, brotliWriterPool >>
    /\ UNCHANGED cacheVars

\* The handler: w.Header().Set("Content-Length", n)
SetContentLength(r) ==
    /\ pc[r] = "handler"
    /\ under[r].header.cl = ""
    /\ under' = [under EXCEPT ![r].header.cl = "15"]
    /\ UNCHANGED << pc, accept, cw, broken, written, writeErr, closeErr, outcome,
                    checkouts, asked, again, forwards, enc, gzipWriterPool, brotliWriterPool >>
    /\ UNCHANGED cacheVars

\* The handler: w.WriteHeader(statusCode), on cw or on the underlying writer.
HandlerWriteHeader(r, statuses) ==
    /\ pc[r] = "handler"
    /\ \E statusCode \in statuses, e \in EncoderChoices(r) :
         /\ asked' = [asked EXCEPT ![r] = IF @ = 0 THEN statusCode ELSE @]
         /\ IF cw[r].wrapped
            THEN Install(cwWriteHeader(Bundle, r, statusCode, e))
            ELSE /\ under' = [under EXCEPT ![r] = UnderWriteHeader(@, statusCode)]
                 /\ UNCHANGED << cw, enc, gzipWriterPool, brotliWriterPool, checkouts, forwards >>
    /\ UNCHANGED << pc, accept, broken, written, writeErr, closeErr, outcome, again >>
    /\ UNCHANGED cacheVars

\* The handler: w.Write(b), on cw or on the underlying writer.
HandlerWrite(r, chunks, flushes) ==
    /\ pc[r] = "handler"
    /\ \E b \in chunks, e \in EncoderChoices(r), flush \in flushes :
         /\ Len(written[r]) + Len(b) <= MaxBody
         /\ written' = [written EXCEPT ![r] = @ \o b]
         /\ asked' = [asked EXCEPT ![r] = IF @ = 0 THEN 200 ELSE @]
         /\ IF cw[r].wrapped
            THEN LET w == cwWrite(Bundle, broken, r, b, e, flush)
                 IN /\ Install(w.S)
                    /\ writeErr' = [writeErr EXCEPT ![r] = @ \/ w.err]
            ELSE LET d == DstWrite(under, broken, r, RawFrames(b))
                 IN /\ under' = d.under
                    /\ writeErr' = [writeErr EXCEPT ![r] = @ \/ ~d.ok]
                    /\ UNCHANGED << cw, enc, gzipWriterPool, brotliWriterPool, checkouts, forwards >>
    /\ UNCHANGED << pc, accept, broken, closeErr, outcome, again >>
    /\ UNCHANGED cacheVars

\* The transport of response r fails: from now on its writer rejects writes.
Disconnect(r) ==
    /\ pc[r] = "handler"
    /\ ~broken[r]
    /\ broken' = [broken EXCEPT ![r] = TRUE]
    /\ UNCHANGED << pc, accept, cw, under, written, writeErr, closeErr, outcome,
                    checkouts, asked, again, forwards, enc, gzipWriterPool, brotliWriterPool >>
    /\ UNCHANGED cacheVars

\* next.ServeHTTP returns or panics; `defer cw.Close()` runs and its result
\* is dropped; CompressionMiddleware's function ends.
HandlerReturn(r, panics) ==
    /\ pc[r] = "handler"
    /\ IF cw[r].wrapped
       THEN LET w == cwClose(Bundle, broken, r)
            IN /\ Install(w.S)
               /\ closeErr' = [closeErr EXCEPT ![r] = w.err]
       ELSE UNCHANGED << cw, under, enc, gzipWriterPool, brotliWriterPool,
                         checkouts, forwards, closeErr >>
    /\ outcome' = [outcome EXCEPT ![r] = IF panics THEN "panic" ELSE "returned"]
    /\ pc' = [pc EXCEPT ![r] = "done"]
    /\ UNCHANGED << accept, broken, written, writeErr, asked, again >>
    /\ UNCHANGED cacheVars

\* One response at a time on a transport that accepts every write, every input.
Next ==
    \E r \in Reqs :
        \/ Start(r, AcceptEncodings, TRUE)
        \/ SetContentType(r, ContentTypes)
        \/ SetContentLength(r)
        \/ HandlerWriteHeader(r, Statuses)
        \/ HandlerWrite(r, Chunks, BOOLEAN)
        \/ HandlerReturn(r, FALSE)

Spec == Init /\ [][Next]_vars

\* Responses served concurrently, on the inputs that reach the pools.
NextConc ==
    \E r \in Reqs :
        \/ Start(r, ConcAcceptEncodings, FALSE)
        \/ SetContentType(r, ConcContentTypes)
        \/ HandlerWriteHeader(r, ConcStatuses)
        \/ HandlerWrite(r, ConcChunks, {FALSE})
        \/ HandlerReturn(r, FALSE)

SpecConc == Init /\ [][NextConc]_vars

\* One response at a time on a transport that may fail, under a handler that may panic.
NextFail ==
    \E r \in Reqs :
        \/ Start(r, ConcAcceptEncodings, TRUE)
        \/ SetContentType(r, ConcContentTypes)
        \/ HandlerWriteHeader(r, ConcStatuses)
        \/ HandlerWrite(r, Chunks, BOOLEAN)
        \/ Disconnect(r)
        \/ \E panics \in BOOLEAN : HandlerReturn(r, panics)

SpecFail == Init /\ [][NextFail]_vars

\* ------------------------------ a handler that uses all of the writer it got
MaxCloses == 2

\* What a handler that serves pre-compressed content sets Content-Encoding to.
HandlerEncodings == {"gzip"}

\* The handler: w.WriteHeader(statusCode) once more, after its first WriteHeader or Write.
HandlerWriteHeaderAgain(r, statuses) ==
    /\ pc[r] = "handler"
    /\ asked[r] # 0
    /\ \E statusCode \in statuses, e \in EncoderChoices(r) :
         /\ again' = [again EXCEPT ![r] = statusCode]
         /\ IF cw[r].wrapped
            THEN Install(cwWriteHeader(Bundle, r, statusCode, e))
            ELSE /\ under' = [under EXCEPT ![r] = UnderWriteHeader(@, statusCode)]
                 /\ UNCHANGED << cw, enc, gzipWriterPool, brotliWriterPool, checkouts, forwards >>
    /\ UNCHANGED << pc, accept, broken, written, writeErr, closeErr, outcome, asked >>
    /\ UNCHANGED cacheVars

\* The handler: w.Header().Set("Content-Encoding", ce), before anything is sent.
SetContentEncoding(r, encodings) ==
    /\ pc[r] = "handler"
    /\ under[r].status = 0
    /\ under[r].header.ce = ""
    /\ \E ce \in encodings : under' = [under EXCEPT ![r].header.ce = ce]
    /\ UNCHANGED << pc, accept, cw, broken, written, writeErr, closeErr, outcome,
                    checkouts, asked, again, forwards, enc, gzipWriterPool, brotliWriterPool >>
    /\ UNCHANGED cacheVars

\* The handler: w.(io.Closer).Close(), the exported Close of the writer it was given.
HandlerClose(r) ==
    /\ pc[r] = "handler"
    /\ cw[r].wrapped
    /\ cw[r].writer # NoEnc
    /\ gzipWriterPool[cw[r].writer] + brotliWriterPool[cw[r].writer] < MaxCloses
    /\ LET w == cwClose(Bundle, broken, r)
       IN /\ Install(w.S)
          /\ closeErr' = [closeErr EXCEPT ![r] = w.err]
    /\ UNCHANGED << pc, accept, broken, written, writeErr, outcome, asked, again >>
    /\ UNCHANGED cacheVars

\* One response at a time, its handler free to repeat WriteHeader, to set its
\* own Content-Encoding and to call Close itself.
NextHandler ==
    \E r \in Reqs :
        \/ Start(r, ConcAcceptEncodings, TRUE)
        \/ SetContentType(r, ConcContentTypes)
        \/ SetContentLength(r)
        \/ SetContentEncoding(r, HandlerEncodings)
        \/ HandlerWriteHeader(r, Statuses)
        \/ HandlerWriteHeaderAgain(r, Statuses)
        \/ HandlerWrite(r, ConcChunks, {FALSE})
        \/ HandlerClose(r)
        \/ HandlerReturn(r, FALSE)

SpecHandler == Init /\ [][NextHandler]_vars

\* --------------------------------------------------- RenderCache: actions
Hits == access.now - Cardinality({n \in 1..Len(renders) : renders[n] = "ok"})

\* getOrRender(key, produce), up to its first suspension, under the cache's
\* lock: a hit returns the entry and refreshes its recency; a miss attaches
\* to the render in flight for the key, or registers one and invokes produce.
\* Of the idle tasks, which are alike, the first takes the next request.
GetOrRender(c) ==
    /\ callers[c].pc = "idle"
    /\ \A d \in Callers : d < c => callers[d].pc # "idle"
    /\ \E k \in Keys :
         IF cache.entries[k] # 0
         THEN /\ Hits < MaxHits
              /\ cache' = Touch(cache, k)
              /\ access' = Stamp(access, k)
              /\ callers' = [callers EXCEPT ![c] =
                     [pc |-> "got", key |-> k, flight |-> 0, res |-> Entry(cache.entries[k])]]
              /\ UNCHANGED << flights, renders >>
         ELSE IF InFlight(flights, k) # 0
         THEN /\ callers' = [callers EXCEPT ![c] =
                     [pc |-> "waiting", key |-> k, flight |-> InFlight(flights, k),
                      res |-> NoResult]]
              /\ UNCHANGED << cache, flights, renders, access >>
         ELSE /\ Len(renders) < MaxRenders
              /\ renders' = Append(renders, "running")
              /\ flights' = [flights EXCEPT ![k] = Len(renders) + 1]
              /\ callers' = [callers EXCEPT ![c] =
                     [pc |-> "producing", key |-> k, flight |-> Len(renders) + 1,
                      res |-> NoResult]]
              /\ UNCHANGED << cache, access >>
    /\ UNCHANGED mwVars

\* produce returns to the caller that invoked it: the result is published to
\* the waiters, stored on success, and the key's flight ends.
ProduceReturns(c) ==
    /\ callers[c].pc = "producing"
    /\ \E ok \in BOOLEAN :
         LET k == callers[c].key
             n == callers[c].flight
         IN /\ renders' = [renders EXCEPT ![n] = IF ok THEN "ok" ELSE "failed"]
            /\ cache' = Store(cache, k, n, ok)
            /\ access' = IF ok THEN Stamp(access, k) ELSE access
            /\ flights' = [flights EXCEPT ![k] = 0]
            /\ callers' = [callers EXCEPT ![c].pc = "got",
                                          ![c].res = IF ok THEN Entry(n) ELSE Failure]
    /\ UNCHANGED mwVars

\* A waiter receives the result of the render it attached to.
WaiterWakes(c) ==
    /\ callers[c].pc = "waiting"
    /\ renders[callers[c].flight] # "running"
    /\ callers' = [callers EXCEPT ![c].pc = "got",
                                  ![c].res = IF renders[callers[c].flight] = "ok"
                                             THEN Entry(callers[c].flight) ELSE Failure]
    /\ UNCHANGED << cache, flights, renders, access >>
    /\ UNCHANGED mwVars

\* The task that called getOrRender ends; the next request's task may call.
CallerLeaves(c) ==
    /\ callers[c].pc = "got"
    /\ callers' = [callers EXCEPT ![c] = Idle]
    /\ UNCHANGED << cache, flights, renders, access >>
    /\ UNCHANGED mwVars

\* Request tasks calling one RenderCache concurrently.
NextCache ==
    \E c \in Callers :
        \/ GetOrRender(c)
        \/ ProduceReturns(c)
        \/ WaiterWakes(c)
        \/ CallerLeaves(c)

SpecCache == Init /\ [][NextCache]_vars

\* ------------------------------------------------- vocabulary of the claims
\* The client accepts a coding: it lists it with a q-value other than 0.
Accepts(ae, coding) ==
    \E i \in 1..Len(ae) : ae[i].coding = coding /\ ae[i].q # "0"

\* The media type of a Content-Type value: what precedes its parameters.
MediaType(ct) ==
    LET semi == {i \in 1..Len(ct) : SubSeq(ct, i, i) = ";"} IN
    IF semi = {} THEN ct ELSE SubSeq(ct, 1, SetMin(semi) - 1)

Allowlist == {compressible[i] : i \in 1..Len(compressible)}

InFlightOrDone(r) == pc[r] \in {"handler", "done"}
HeadersSent(r) == InFlightOrDone(r) /\ under[r].status # 0

\* Decoding a body with the algorithm a Content-Encoding names ("" = identity):
\* ok = FALSE when the body is not one complete stream of that codec.
Decode(encoding, body) ==
    LET n == Len(body)
        first == IF encoding = "gzip" THEN 2 ELSE 1
        last == IF encoding = "" THEN n ELSE n - 1
        codec == IF encoding = "" THEN "raw" ELSE encoding
        framed ==
            /\ encoding = "gzip" => n >= 2 /\ body[1] = Frame("gzip", "hdr", "")
            /\ encoding # "" => n >= 1 /\ body[n] = Frame(encoding, "end", "")
        ok == /\ framed
              /\ \A i \in first..last : body[i].c = codec /\ body[i].k = "data"
    IN IF ok THEN [ok |-> TRUE, data |-> [i \in 1..(last - first + 1) |-> body[i + first - 1].v]]
       ELSE [ok |-> FALSE, data |-> <<>>]

\* ------------------------------------------------------------------ claims

\* C1: a response is compressed only if its declared Content-Type belongs to
\* the allowlist of eight media types; for every other content type
\* shouldCompress is false and the body is never compressed.  (Stated on the
\* media type, so that parameters after ';' are not held against the code.)
C1_CompressedOnlyIfAllowlisted ==
    \A r \in Reqs :
        (InFlightOrDone(r) /\ cw[r].compressionUsed)
            => MediaType(under[r].sent.ct) \in Allowlist

\* C2: for a compressible response the encoding applied is brotli whenever the
\* client accepts brotli, whatever the order and whether or not gzip is
\* accepted too, and it is gzip exactly when the client accepts gzip and does
\* not accept brotli.
C2_BrotliPreferredGzipOtherwise ==
    \A r \in Reqs :
        (HeadersSent(r) /\ MediaType(under[r].sent.ct) \in Allowlist)
            => /\ Accepts(accept[r], "br") => under[r].sent.ce = "br"
               /\ under[r].sent.ce = "gzip"
                    <=> (Accepts(accept[r], "gzip") /\ ~Accepts(accept[r], "br"))

\* C3: when the client accepts neither brotli nor gzip (header absent
\* included) the response passes through untouched for every content type:
\* the body bytes are the handler's, no Content-Encoding is added and no
\* encoder is taken from a pool.
C3_PassThroughWhenNeitherAccepted ==
    \A r \in Reqs :
        (InFlightOrDone(r) /\ ~Accepts(accept[r], "br") /\ ~Accepts(accept[r], "gzip"))
            => /\ checkouts[r] = 0
               /\ ~cw[r].compressionUsed
               /\ under[r].header.ce = "" /\ under[r].sent.ce = ""
               /\ under[r].body = RawFrames(written[r])

\* C4: in every response to which compression is applied, the headers that
\* went out with the status line, hence before any payload byte, have no
\* Content-Length and carry Content-Encoding = the chosen encoding, whether
\* the handler called WriteHeader or started with Write.
C4_HeadersFixedBeforeStatusAndBody ==
    \A r \in Reqs :
        (InFlightOrDone(r) /\ cw[r].compressionUsed)
            => /\ under[r].status # 0
               /\ under[r].sent.cl = ""
               /\ under[r].sent.ce = cw[r].encoding
               /\ under[r].sent.ce \in {"br", "gzip"}
               /\ \A i \in 1..Len(under[r].body) : under[r].body[i].c = under[r].sent.ce

C4_Witness ==
    \E r \in Reqs :
        /\ pc[r] = "handler" /\ cw[r].compressionUsed
        /\ under[r].status = 204 /\ under[r].sent.ce = "br"
        /\ under[r].header.cl # "" /\ under[r].body # <<>>

\* C5: round trip: once the middleware has returned for a compressed response,
\* decoding what the underlying writer received with the algorithm named in
\* Content-Encoding gives exactly the bytes the handler passed to Write, in
\* call order.
C5_RoundTrip ==
    \A r \in Reqs :
        (pc[r] = "done" /\ cw[r].compressionUsed)
            => Decode(under[r].sent.ce, under[r].body) = [ok |-> TRUE, data |-> written[r]]

C5_Witness ==
    \E r \in Reqs :
        /\ pc[r] = "done" /\ cw[r].compressionUsed
        /\ under[r].sent.ce = "br" /\ written[r] = <<"x", "y", "x">>
        /\ \E e \in GzIds : enc[e].closed /\ gzipWriterPool[e] = 1

\* C6: when the client accepts gzip or brotli but the content type is not
\* compressible (image/png, ...), the body reaches the underlying writer byte
\* for byte, no Content-Encoding is set, Content-Length stays and no encoder
\* is checked out.
C6_NotCompressibleForwarded ==
    \A r \in Reqs :
        (/\ HeadersSent(r)
         /\ Accepts(accept[r], "gzip") \/ Accepts(accept[r], "br")
         /\ MediaType(under[r].sent.ct) \notin Allowlist)
            => /\ checkouts[r] = 0
               /\ under[r].sent.ce = "" /\ under[r].header.ce = ""
               /\ under[r].body = RawFrames(written[r])

\* C7: under any interleaving of concurrently served responses a pooled
\* encoder is held by at most one response at a time: while a response holds
\* it, it is not in the pool, no other response holds it, and it writes to
\* that response only.
Holds(r, e) == pc[r] = "handler" /\ cw[r].writer = e

C7_EncoderHeldByOne ==
    \A e \in EncIds :
        /\ Cardinality({r \in Reqs : Holds(r, e)}) <= 1
        /\ \A r \in Reqs :
             Holds(r, e) => /\ gzipWriterPool[e] = 0 /\ brotliWriterPool[e] = 0
                            /\ enc[e].dst = r

C7_Witness ==
    \E r, q \in Reqs, e, f \in GzIds :
        /\ r # q /\ e # f
        /\ Holds(r, e) /\ Holds(q, f)
        /\ enc[e].buf # <<>> /\ enc[f].buf # <<>>

\* C8: once the first WriteHeader or Write of a response has happened, its
\* compress / pass-through choice, its encoding and its encoder never change,
\* whatever the handler does afterwards.
C8_DecisionFrozen ==
    [][\A r \in Reqs :
          (cw[r].headerWritten /\ pc[r] = "handler" /\ pc'[r] \in {"handler", "done"})
              => /\ cw'[r].headerWritten
                 /\ cw'[r].compressionUsed = cw[r].compressionUsed
                 /\ cw'[r].encoding = cw[r].encoding
                 /\ cw'[r].writer = cw[r].writer]_vars

C8_Witness ==
    \E r \in Reqs :
        /\ pc[r] = "done" /\ cw[r].headerWritten /\ ~cw[r].compressionUsed
        /\ under[r].sent.ct = "image/png" /\ under[r].header.ct = "image/svg+xml"
        /\ under[r].body = RawFrames(<<"x", "y", "x">>)

\* C9: once the headers declaring an encoding are out, a failure of the
\* compressor (here: of the final Close the middleware performs, not reported
\* by any Write before) ends the response as an abort, never as a normal
\* return.
C9_CloseFailureAborts ==
    \A r \in Reqs :
        (pc[r] = "done" /\ cw[r].compressionUsed /\ closeErr[r] /\ ~writeErr[r])
            => outcome[r] # "returned"

\* C10: an encoder sitting in a pool holds no reference to the response it
\* served: its output target is nil.
C10_PooledEncoderHoldsNoWriter ==
    \A e \in EncIds :
        (gzipWriterPool[e] > 0 \/ brotliWriterPool[e] > 0) => enc[e].dst = NoEnc

\* C11: the status forwarded to the underlying writer is the one of the
\* handler's first WriteHeader call, or 200 when the handler starts with
\* Write, whether the response is compressed or passed through.
C11_StatusPreserved ==
    \A r \in Reqs : InFlightOrDone(r) => under[r].status = asked[r]

C11_Witness ==
    \E r \in Reqs :
        /\ pc[r] = "done" /\ cw[r].compressionUsed
        /\ asked[r] = 204 /\ under[r].status = 204 /\ written[r] # <<>>

\* How often encoder e lies in the pool of its kind, and in the other one.
InOwnPool(e) == IF e \in BrIds THEN brotliWriterPool[e] ELSE gzipWriterPool[e]
InOtherPool(e) == IF e \in BrIds THEN gzipWriterPool[e] ELSE brotliWriterPool[e]

Holders(e) == {r \in Reqs : pc[r] = "handler" /\ cw[r].writer = e}

LastFrame(body) == IF body = <<>> THEN Raw("") ELSE body[Len(body)]

\* C12: every encoder taken from a pool is back in the same pool, exactly
\* once, when the middleware returns, by a normal return or by a panic of the
\* handler, and it has been closed with its final bytes on the response's
\* writer (unless the transport failed); so an allocated encoder is either
\* once in its pool or held by exactly one in-flight response.
C12_EncoderCheckedBackIn ==
    /\ [](\A e \in EncIds :
            enc[e].kind # "none" =>
                /\ InOwnPool(e) + Cardinality(Holders(e)) = 1
                /\ InOtherPool(e) = 0)
    /\ [][\A r \in Reqs :
            (pc[r] = "handler" /\ pc'[r] = "done" /\ cw[r].writer # NoEnc) =>
                LET e == cw[r].writer IN
                /\ InOwnPool(e)' = InOwnPool(e) + 1
                /\ ~broken[r] =>
                       /\ enc'[e].closed
                       /\ enc'[e].buf = <<>>
                       /\ LastFrame(under'[r].body) = Frame(cw[r].encoding, "end", "")]_vars

C12_Witness ==
    \E r \in Reqs :
        /\ pc[r] = "done" /\ outcome[r] = "panic" /\ ~broken[r]
        /\ cw[r].writer # NoEnc /\ written[r] # <<>>
        /\ InOwnPool(cw[r].writer) = 1 /\ enc[cw[r].writer].closed

\* The codings that occur in a body, and the payload bytes it carries.
Codecs(body) == {body[i].c : i \in 1..Len(body)}
DataValues(body) ==
    LET d == SelectSeq(body, LAMBDA f : f.k \in {"data", "raw"})
    IN [i \in 1..Len(d) |-> d[i].v]

\* C17: an encoding is applied only if the client accepts it: the
\* Content-Encoding sent and the coding of every body byte is brotli only when
\* the request lists br (not with q=0), gzip only when it lists gzip (not with
\* q=0); the letters inside another token do not count.
C17_OnlyAcceptedEncodings ==
    \A r \in Reqs :
        InFlightOrDone(r) =>
            /\ under[r].sent.ce # "" => Accepts(accept[r], under[r].sent.ce)
            /\ \A c \in Codecs(under[r].body) \ {"raw"} : Accepts(accept[r], c)

\* C18: for every writer the middleware made, compressionUsed holds exactly
\* when the writer holds an encoder and exactly when Content-Encoding carries
\* the negotiated encoding, and the body is wholly of that coding or wholly raw.
C18_NeverMixed ==
    \A r \in Reqs :
        (InFlightOrDone(r) /\ cw[r].wrapped) =>
            /\ cw[r].compressionUsed <=> cw[r].writer # NoEnc
            /\ cw[r].compressionUsed <=> under[r].header.ce = cw[r].encoding
            /\ cw[r].compressionUsed <=> under[r].sent.ce = cw[r].encoding
            /\ Codecs(under[r].body) \subseteq
                   (IF cw[r].compressionUsed THEN {cw[r].encoding} ELSE {"raw"})

C18_Witness ==
    \E r \in Reqs :
        /\ pc[r] = "handler" /\ cw[r].wrapped /\ cw[r].compressionUsed
        /\ Len(written[r]) = MaxBody
        /\ Len(under[r].body) > Len(written[r])
        /\ under[r].sent.ce = "gzip"

\* C19: what a response's handler writes through a pooled encoder reaches
\* that response's writer only: a response that is not being served receives
\* nothing, an encoder in use holds only bytes of its holder, and the payload
\* on a response's writer plus what its encoder still buffers is exactly what
\* its handler wrote, with one trailer and only after the handler returned.
C19_CrossResponseIsolation ==
    \A r \in Reqs :
        /\ pc[r] \in {"new", "closed"} => under[r] = NewResponseWriter
        /\ InFlightOrDone(r) =>
             LET e == cw[r].writer
                 ends == SelectSeq(under[r].body, LAMBDA f : f.k = "end")
             IN /\ DataValues(under[r].body)
                      \o (IF pc[r] = "handler" /\ e # NoEnc THEN enc[e].buf ELSE <<>>)
                    = written[r]
                /\ Len(ends) = (IF pc[r] = "done" /\ e # NoEnc THEN 1 ELSE 0)

C19_Witness ==
    \E r, q \in Reqs :
        /\ q # r /\ pc[q] = "done" /\ pc[r] = "done"
        /\ cw[q].writer # NoEnc /\ cw[r].writer = cw[q].writer
        /\ written[q] # <<>> /\ written[r] # <<>>
        /\ DataValues(under[r].body) = written[r]
        /\ DataValues(under[q].body) = written[q]

\* C20: a response whose handler returns without ever calling Write has no
\* body bytes on the underlying writer, for every content type and every
\* accepted encoding.
C20_BodylessStaysBodyless ==
    \A r \in Reqs :
        (pc[r] = "done" /\ written[r] = <<>>) => under[r].body = <<>>

Cached == {k \in Keys : cache.entries[k] # 0}
Attached(c) == callers[c].pc \in {"producing", "waiting", "got"} /\ callers[c].flight # 0

\* C13: at most one render per key: produce runs at most once at a time for
\* a key and only for a key that is neither cached nor in flight; every
\* caller that asks for the key meanwhile is attached to that one render;
\* its entry is stored and is what each of these callers receives; a caller
\* never waits on the render of another key.
C13_AtMostOneRender ==
    /\ [](\A k \in Keys :
            Cardinality({c \in Callers : callers[c].pc = "producing"
                                          /\ callers[c].key = k}) <= 1)
    /\ [](\A c \in Callers :
            /\ (callers[c].pc \in {"producing", "waiting"}
                  /\ renders[callers[c].flight] = "running")
                 => /\ flights[callers[c].key] = callers[c].flight
                    /\ cache.entries[callers[c].key] = 0
            /\ (callers[c].pc = "got" /\ callers[c].flight # 0
                  /\ renders[callers[c].flight] = "ok")
                 => callers[c].res = Entry(callers[c].flight)
            /\ \A d \in Callers :
                 (Attached(c) /\ Attached(d) /\ callers[c].flight = callers[d].flight)
                    => callers[c].key = callers[d].key)
    /\ [][\A c \in Callers :
            /\ (callers[c].pc = "producing" /\ callers'[c].res.st = "entry")
                 => cache'.entries[callers[c].key] = callers[c].flight
            /\ (callers[c].pc = "idle" /\ callers'[c].pc = "producing")
                 => /\ cache.entries[callers'[c].key] = 0
                    /\ flights[callers'[c].key] = 0
                    /\ Len(renders') = Len(renders) + 1
            /\ (callers[c].pc = "idle" /\ callers'[c].pc \in {"waiting", "got"})
                 => renders' = renders]_vars

C13_Witness ==
    \E c, d \in Callers :
        /\ c # d /\ callers[c].pc = "got" /\ callers[d].pc = "got"
        /\ callers[c].key = callers[d].key
        /\ callers[c].flight = 1 /\ callers[d].flight = 1
        /\ callers[c].res = Entry(1) /\ callers[d].res = Entry(1)
        /\ cache.entries[callers[c].key] = 1
        /\ Len(renders) = 1

\* C14: the cache never holds more than Capacity entries, and an entry leaves
\* it only when an insertion finds it full, the entry that leaves being the
\* one whose last access (insertion or hit) is the oldest of those cached.
C14_LRUEviction ==
    /\ [](Cardinality(Cached) <= Capacity /\ Len(cache.lru) = Cardinality(Cached))
    /\ [][\A k \in Keys :
            (cache.entries[k] # 0 /\ cache'.entries[k] = 0)
               => /\ Cardinality(Cached) = Capacity
                  /\ \E j \in Keys : cache.entries[j] = 0 /\ cache'.entries[j] # 0
                  /\ \A j \in Cached : access.stamp[k] <= access.stamp[j]]_vars

\* With capacity 2: A and B inserted, A hit, C inserted: B is gone, A is kept.
C14_Witness ==
    /\ Capacity = 2
    /\ cache.entries["A"] = 1 /\ cache.entries["B"] = 0 /\ cache.entries["C"] = 3
    /\ access.stamp["A"] = 3 /\ access.stamp["B"] = 2 /\ access.stamp["C"] = 4

\* C15: a failure of produce reaches every caller attached to that render,
\* leaves the key out of the cache and ends the key's flight, so that the next
\* getOrRender for the key invokes produce again; no failure is ever cached.
C15_FailureNotCached ==
    /\ [](\A k \in Cached : renders[cache.entries[k]] = "ok")
    /\ [](\A c \in Callers :
            (callers[c].pc = "got" /\ callers[c].flight # 0
               /\ renders[callers[c].flight] = "failed")
              => callers[c].res = Failure)
    /\ [][\A c \in Callers :
            /\ (callers[c].pc = "producing" /\ callers'[c].res = Failure)
                 => /\ cache' = cache
                    /\ cache'.entries[callers[c].key] = 0
                    /\ flights'[callers[c].key] = 0
            /\ (callers[c].pc = "idle" /\ callers'[c].pc # "idle"
                  /\ cache.entries[callers'[c].key] = 0
                  /\ flights[callers'[c].key] = 0)
                 => /\ callers'[c].pc = "producing"
                    /\ Len(renders') = Len(renders) + 1]_vars

C15_Witness ==
    \E c, d \in Callers :
        /\ c # d /\ callers[c].pc = "got" /\ callers[d].pc = "got"
        /\ callers[c].flight = callers[d].flight /\ callers[c].flight # 0
        /\ renders[callers[c].flight] = "failed"
        /\ callers[c].res = Failure /\ callers[d].res = Failure
        /\ cache.entries[callers[c].key] = 0 /\ flights[callers[c].key] = 0
        /\ \E n \in 1..Len(renders) : n < callers[c].flight /\ renders[n] = "failed"

\* C21: WriteHeader of a compressionResponseWriter takes effect at most once:
\* the first call, explicit or implied by the first Write, passes exactly one
\* WriteHeader on and checks out at most one encoder; a later call passes
\* nothing on and changes neither the writers, the headers, the encoders nor
\* the pools.
C21_WriteHeaderOnce ==
    /\ [](\A r \in Reqs :
            (InFlightOrDone(r) /\ cw[r].wrapped) =>
                /\ forwards[r] = (IF cw[r].headerWritten THEN 1 ELSE 0)
                /\ under[r].status # 0 <=> cw[r].headerWritten
                /\ checkouts[r] <= 1)
    /\ [][\A r \in Reqs :
            (pc[r] = "handler" /\ pc'[r] = "handler" /\ again'[r] # again[r]) =>
                /\ under' = under /\ cw' = cw /\ enc' = enc
                /\ gzipWriterPool' = gzipWriterPool
                /\ brotliWriterPool' = brotliWriterPool
                /\ checkouts' = checkouts /\ forwards' = forwards]_vars

C21_Witness ==
    \E r \in Reqs :
        /\ pc[r] = "handler" /\ cw[r].wrapped /\ cw[r].compressionUsed
        /\ written[r] # <<>>
        /\ asked[r] = 200 /\ again[r] = 204 /\ under[r].status = 200
        /\ forwards[r] = 1 /\ checkouts[r] = 1

\* C22: an encoder is put back into its pool at most once per checkout,
\* however often Close is called on the compressionResponseWriter: no pool
\* ever contains the same encoder twice.
C22_PutBackAtMostOnce ==
    \A e \in EncIds : InOwnPool(e) + InOtherPool(e) <= 1

\* C23: the decision is taken from the Content-Type as it stands at the first
\* WriteHeader or Write: when none is set by then, the headers go out as the
\* handler left them (no Content-Encoding added, Content-Length kept), no
\* encoder is taken and the body stays the handler's bytes, also when the
\* handler sets a compressible Content-Type afterwards.
C23_UntypedPassesThrough ==
    /\ [][\A r \in Reqs :
            (pc[r] = "handler" /\ under[r].status = 0 /\ under'[r].status # 0
               /\ under[r].header.ct = "") =>
                /\ under'[r].sent = under[r].header
                /\ under'[r].header = under[r].header
                /\ ~cw'[r].compressionUsed
                /\ checkouts'[r] = checkouts[r]]_vars
    /\ [](\A r \in Reqs :
            (HeadersSent(r) /\ under[r].sent.ct = "") =>
                /\ ~cw[r].compressionUsed /\ cw[r].writer = NoEnc
                /\ checkouts[r] = 0
                /\ under[r].header.ce = under[r].sent.ce
                /\ under[r].header.cl = "" => under[r].sent.cl = ""
                /\ under[r].body = RawFrames(written[r]))

C23_Witness ==
    \E r \in Reqs :
        /\ pc[r] = "done" /\ cw[r].wrapped
        /\ under[r].sent.ct = "" /\ under[r].header.ct = "image/svg+xml"
        /\ under[r].sent.cl = "15" /\ under[r].sent.ce = ""
        /\ written[r] # <<>> /\ under[r].body = RawFrames(written[r])

\* C24: a response on which the handler has set its own Content-Encoding
\* before anything was sent is not compressed again: its headers go out with
\* that Content-Encoding, no encoder is taken and compression is not used.
C24_NoSecondEncoding ==
    [][\A r \in Reqs :
         (pc[r] = "handler" /\ under[r].status = 0 /\ under'[r].status # 0
            /\ under[r].header.ce # "") =>
             /\ under'[r].sent.ce = under[r].header.ce
             /\ ~cw'[r].compressionUsed
             /\ checkouts'[r] = checkouts[r]]_vars

\* C25: shouldCompress depends only on the media type of the Content-Type
\* value: for every Content-Type a handler sets, with or without parameters,
\* it classifies the value as it classifies the media type alone.
C25_ParametersDoNotMatter ==
    \A r \in Reqs :
        InFlightOrDone(r) =>
            shouldCompress(under[r].header.ct)
                = shouldCompress(MediaType(under[r].header.ct))

====
